---- MODULE Spec2Model ----
(***************************************************************************)
(* bpf-fs-events: the userspace fragment reassembler (PartialPaths), the   *)
(* array-mode record decoder, the unix-socket fan-out server, the watcher  *)
(* facade FsEvents with its callbacks, the server's startup and teardown   *)
(* on a sockpath, and the default textual encoder.                         *)
(*                                                                         *)
(* Strings are sequences of one-character strings, so that "/" + part is   *)
(* real concatenation and a path's first and last characters can be read.  *)
(***************************************************************************)
EXTENDS Integers, Sequences, FiniteSets, TLC

VARIABLES
    variant,             \* which ringbuf reassembler runs: "lib" (lib.rs) or "ringbuf" (ingest.rs)
    path_parsing_state,  \* the PartialPaths owned by the callback closure
    event,               \* the RawEvent handed to the callback most recently
    out,                 \* what continue_with returned for it: Option<Event>
    ret,                 \* the callback's return code to the kernel channel
    tx,                  \* the mpsc channel from the callback to the poller
    group,               \* history: [effect_type, buf] of the records of the current group id run
    nrec,                \* history: records delivered so far
    nemit,               \* history: events emitted so far
    panicked,            \* the callback hit unreachable!()
    raw,                 \* array mode: the RawEvent being decoded
    name,                \* array mode: what reordered_buf_to_string made of it
    clients,             \* server: Vec<UnixStream>, the subscriber list
    accepted,            \* server: the accept-channel (accepted_tx -> accepted_rx)
    removed,             \* server: the prune-channel (removed_tx -> removed_rx)
    closed,              \* subscribers whose end of the socket is closed
    received,            \* per subscriber, the events written to it in full
    stream,              \* per subscriber, the bytes written to its socket
    nconn,               \* connections the accepter has accepted so far
    nevents,             \* events the watcher has returned so far
    broke,               \* history: subscribers a write to which failed with BrokenPipe
    pc,                  \* server: where the main loop stands
    reading,             \* accepter: the stream whose greeting read has not returned, if any
    backlog,             \* clients that have connected and sent their greeting, not yet accepted
    rx_alive,            \* watcher: the Receiver end of the mpsc channel exists
    wpc,                 \* watcher: "polling" while self.ringbuf.poll runs, else "idle"
    duration,            \* watcher: the timeout of the poll under way or last made
    consumed,            \* watcher: the poll under way has handed a record to the callback
    kerr,                \* watcher: the callback's code made the channel stop the poll
    kpoll,               \* watcher: what self.ringbuf.poll returned last
    result,              \* watcher: what poll_with_timeout returned last
    polled,              \* history: the events poll_with_timeout has returned
    yielded,             \* history: timestamps of the terminal records yielded while the Receiver existed
    spc,                 \* startup: per server process, where it stands in Server::try_new and after
    thread,              \* startup: per server process, its accepter thread
    pidfile,             \* startup: the contents of <sockpath>.pid, if the file exists
    socknode,            \* startup: who bound the socket node at <sockpath>, if it exists
    attached,            \* startup: the processes whose probes are attached
    readpid,             \* history: per process, what it read from the PID file
    killres,             \* history: per process, how its kill(pid, SIGTERM) ended
    touched,             \* history: the processes that have removed or written a file
    signalled,           \* history: the processes that were sent SIGTERM
    evs_a,               \* encoder: the events of one stream, in the order written
    wire_a,              \* encoder: the bytes of that stream
    evs_b,               \* encoder: the events of another stream
    wire_b               \* encoder: the bytes of the other stream

frVars == <<variant, path_parsing_state, event, out, ret, tx, group, nrec, nemit, panicked>>
decVars == <<raw, name>>
fsVars == <<clients, accepted, removed, closed, received, stream, nconn, nevents, broke, pc,
           reading, backlog>>

wfVars == <<rx_alive, wpc, duration, consumed, kerr, kpoll, result, polled, yielded>>
stVars == <<spc, thread, pidfile, socknode, attached, readpid, killres, touched, signalled>>
encVars == <<evs_a, wire_a, evs_b, wire_b>>
xVars == <<wfVars, stVars, encVars>>

vars == <<frVars, decVars, fsVars, xVars>>

-----------------------------------------------------------------------------
(* Bounds of the model *)

MaxRecords == 5
MaxEvents == 2

Components == {<<"x">>, <<"e", "t", "c">>}
Pid(n) == 9 + n
PathTypeBytes == {1, 6}
EffectTypeBytes == 0 .. 6
TerminalBytes == 0 .. 3
GroupIds == {0, 1}

-----------------------------------------------------------------------------
(* Option<T> *)

None == [some |-> FALSE]
Some(v) == [some |-> TRUE, val |-> v]

-----------------------------------------------------------------------------
(* event.rs / lib.rs: the wire enums *)

PathTypeFrom(value) ==
    CASE value = 0 -> "Dir"
      [] value = 1 -> "File"
      [] value = 2 -> "Symlink"
      [] value = 3 -> "Hardlink"
      [] value = 4 -> "Blockdev"
      [] value = 5 -> "Socket"
      [] value = 6 -> "Continuation"
      [] OTHER -> "Unknown"

EffectTypeFrom(value) ==
    CASE value = 0 -> "Create"
      [] value = 1 -> "Rename"
      [] value = 2 -> "Link"
      [] value = 3 -> "Delete"
      [] value = 4 -> "Continuation"
      [] value = 5 -> "Association"
      [] OTHER -> "unreachable"

Terminal == {"Create", "Rename", "Link", "Delete"}

-----------------------------------------------------------------------------
(* lib.rs: PartialPaths over two VecDeque<String> and a group id *)

RECURSIVE FoldPath(_, _)
FoldPath(acc, parts) ==
    IF parts = <<>> THEN acc
    ELSE FoldPath(acc \o <<"/">> \o Head(parts), Tail(parts))

deque_to_path_name(deque) == FoldPath(<<>>, deque)

PartialPathsNew ==
    [path_names |-> <<>>, associated |-> <<>>, event_group_id |-> 0, state |-> "Pending"]

\* a byte that no UTF-8 text contains (0xFF); every other byte used here is
\* ASCII
InvalidBytes == {"FF"}

\* std::str::from_utf8: Ok(text) or Err
from_utf8(bytes) ==
    IF \E i \in 1 .. Len(bytes) : bytes[i] \in InvalidBytes THEN None ELSE Some(bytes)

\* from_utf8(span).unwrap(): ev.buf is the span of buf_len bytes
path_name_from_bpf_event(ev) == from_utf8(ev.buf).val

MakeEvent(path_name, associated, ev, effect_type) ==
    [path_name |-> path_name,
     associated |-> associated,
     timestamp |-> ev.timestamp,
     pid |-> ev.pid,
     path_type |-> PathTypeFrom(ev.path_type),
     effect_type |-> effect_type]

ClearOnGroupChange(self, ev) ==
    IF ev.event_group_id # self.event_group_id
    THEN [self EXCEPT !.path_names = <<>>,
                      !.associated = <<>>,
                      !.event_group_id = ev.event_group_id]
    ELSE self

\* a variant that pushes the sentinel and forgets to mark the state Pending
PushAssociationKeepsState(self) ==
    [self EXCEPT !.associated = <<(<<>>)>> \o @]

PushAssociation(self) ==
    [self EXCEPT !.associated = <<(<<>>)>> \o @, !.state = "Pending"]

\* a variant that pushes at the back of the deque
PushContinuationBack(self, path_name) ==
    IF Len(self.associated) = 0
    THEN [self EXCEPT !.path_names = Append(@, path_name), !.state = "Pending"]
    ELSE [self EXCEPT !.associated = Append(@, path_name), !.state = "Pending"]

PushContinuation(self, path_name) ==
    IF Len(self.associated) = 0
    THEN [self EXCEPT !.path_names = <<path_name>> \o @, !.state = "Pending"]
    ELSE [self EXCEPT !.associated = <<path_name>> \o @, !.state = "Pending"]

TerminalEvent(self, ev, effect_type) ==
    MakeEvent(deque_to_path_name(self.path_names),
              IF Len(self.associated) = 0 THEN None
              ELSE Some(deque_to_path_name(self.associated)),
              ev, effect_type)

\* continue_with: the new PartialPaths and the Option<Event> it returns
continue_with(self0, ev) ==
    LET self == ClearOnGroupChange(self0, ev)
        effect_type == EffectTypeFrom(ev.effect_type)
    IN  CASE effect_type = "Association" ->
                [self |-> PushAssociation(self), out |-> None]
          [] effect_type = "Continuation" ->
                [self |-> PushContinuation(self, path_name_from_bpf_event(ev)), out |-> None]
          [] OTHER ->
                [self |-> [self EXCEPT !.state = "Complete"],
                 out |-> Some(TerminalEvent(self, ev, effect_type))]

-----------------------------------------------------------------------------
(* ingest.rs, ev-ringbuf: PartialPaths over a PathAcc and an Option<PathAcc> *)

RECURSIVE Reverse(_)
Reverse(s) == IF s = <<>> THEN <<>> ELSE Reverse(Tail(s)) \o <<Head(s)>>

PathAccNew == [items |-> <<>>]

concat_items_to_path_name(acc) == FoldPath(<<>>, Reverse(acc.items))

RingbufPartialPathsNew ==
    [path_name |-> PathAccNew, associated |-> None, state |-> "Pending"]

RingbufGroupCheck(self, ev) == self

\* event.rs buf_as_str: from_utf8(buf_bytes).unwrap()
buf_as_str(ev) == from_utf8(ev.buf).val

RingbufPushContinuation(self, path_name) ==
    IF self.associated.some
    THEN [self EXCEPT !.associated = Some([items |-> Append(@.val.items, path_name)]),
                      !.state = "Pending"]
    ELSE [self EXCEPT !.path_name = [items |-> Append(@.items, path_name)],
                      !.state = "Pending"]

RingbufTerminalEvent(self, ev, effect_type) ==
    MakeEvent(concat_items_to_path_name(self.path_name),
              IF self.associated.some
              THEN Some(concat_items_to_path_name(self.associated.val))
              ELSE None,
              ev, effect_type)

ringbuf_continue_with(self0, ev) ==
    LET self == RingbufGroupCheck(self0, ev)
        effect_type == EffectTypeFrom(ev.effect_type)
    IN  CASE effect_type = "Continuation" ->
                [self |-> RingbufPushContinuation(self, buf_as_str(ev)), out |-> None]
          [] effect_type = "Association" ->
                [self |-> [self EXCEPT !.associated = Some(PathAccNew), !.state = "Pending"],
                 out |-> None]
          [] OTHER ->
                [self |-> [self EXCEPT !.path_name = PathAccNew,
                                       !.associated = None,
                                       !.state = "Complete"],
                 out |-> Some(RingbufTerminalEvent(self, ev, effect_type))]

-----------------------------------------------------------------------------
(* The records the kernel channel can deliver in ringbuf mode.  The clock  *)
(* is monotonic: record number n carries timestamp 1000 * n, and comes     *)
(* from process 9 + n, so no two records share a timestamp or a pid.  Only *)
(* a Continuation record carries path bytes.  event_group_id is the        *)
(* kernel side's counter: it never decreases from one record to the next.  *)

NextGroupIds == {g \in GroupIds : nrec = 0 \/ g >= event.event_group_id}

RingbufRecords(n) ==
    { [timestamp |-> 1000 * n, pid |-> Pid(n), effect_type |-> e, path_type |-> t,
       buf |-> <<>>, event_group_id |-> g] :
        e \in TerminalBytes, t \in PathTypeBytes, g \in NextGroupIds }
    \cup
    { [timestamp |-> 1000 * n, pid |-> Pid(n), effect_type |-> e, path_type |-> 6,
       buf |-> <<>>, event_group_id |-> g] :
        e \in EffectTypeBytes \ (TerminalBytes \cup {4}), g \in NextGroupIds }
    \cup
    { [timestamp |-> 1000 * n, pid |-> Pid(n), effect_type |-> 4, path_type |-> 6,
       buf |-> b, event_group_id |-> g] :
        b \in Components, g \in NextGroupIds }

NoEvent ==
    [timestamp |-> 0, pid |-> 0, effect_type |-> 4, path_type |-> 6,
     buf |-> <<>>, event_group_id |-> 0]

\* history: the records seen since the group id last changed
GroupAfter(ev) ==
    LET entry == [effect_type |-> EffectTypeFrom(ev.effect_type), buf |-> ev.buf]
    IN  IF nrec > 0 /\ ev.event_group_id = event.event_group_id
        THEN Append(group, entry)
        ELSE <<entry>>

\* the callback's tail: forward a completed event, report 0 to keep going
Forward(res) ==
    /\ out' = res.out
    /\ IF res.out.some
       THEN /\ tx' = Append(tx, res.out.val)
            /\ nemit' = nemit + 1
       ELSE UNCHANGED <<tx, nemit>>
    /\ ret' = 0

Deliver(ev) ==
    /\ event' = ev
    /\ group' = GroupAfter(ev)
    /\ nrec' = nrec + 1

\* lib.rs accumulating_event_handler
accumulating_event_handler ==
    /\ variant = "lib"
    /\ ~panicked
    /\ nrec < MaxRecords
    /\ nemit < MaxEvents
    /\ \E ev \in RingbufRecords(nrec + 1) :
        /\ Deliver(ev)
        /\ IF EffectTypeFrom(ev.effect_type) = "unreachable"
           THEN /\ panicked' = TRUE
                /\ path_parsing_state' = ClearOnGroupChange(path_parsing_state, ev)
                /\ UNCHANGED <<out, ret, tx, nemit>>
           ELSE /\ path_parsing_state' = continue_with(path_parsing_state, ev).self
                /\ Forward(continue_with(path_parsing_state, ev))
                /\ UNCHANGED panicked
    /\ UNCHANGED <<variant, decVars, fsVars, xVars>>

\* ingest.rs accumulating_event_stream_proxy (ev-ringbuf)
accumulating_event_stream_proxy_ringbuf ==
    /\ variant = "ringbuf"
    /\ ~panicked
    /\ nrec < MaxRecords
    /\ nemit < MaxEvents
    /\ \E ev \in RingbufRecords(nrec + 1) :
        /\ Deliver(ev)
        /\ IF EffectTypeFrom(ev.effect_type) = "unreachable"
           THEN /\ panicked' = TRUE
                /\ UNCHANGED <<path_parsing_state, out, ret, tx, nemit>>
           ELSE /\ path_parsing_state' = ringbuf_continue_with(path_parsing_state, ev).self
                /\ Forward(ringbuf_continue_with(path_parsing_state, ev))
                /\ UNCHANGED panicked
    /\ UNCHANGED <<variant, decVars, fsVars, xVars>>

WfIdle ==
    /\ rx_alive = TRUE
    /\ wpc = "idle"
    /\ duration = "zero"
    /\ consumed = FALSE
    /\ kerr = FALSE
    /\ kpoll = "Ok"
    /\ result = [kind |-> "None"]
    /\ polled = <<>>
    /\ yielded = <<>>

Servers == {11, 12}

StIdle ==
    /\ spc = [p \in Servers |-> "init"]
    /\ thread = [p \in Servers |-> "none"]
    /\ pidfile = None
    /\ socknode = None
    /\ attached = {}
    /\ readpid = [p \in Servers |-> None]
    /\ killres = [p \in Servers |-> "none"]
    /\ touched = {}
    /\ signalled = {}

EncIdle ==
    /\ evs_a = <<>>
    /\ wire_a = <<>>
    /\ evs_b = <<>>
    /\ wire_b = <<>>

XIdle == WfIdle /\ StIdle /\ EncIdle

DecIdle ==
    /\ raw = [buf |-> <<>>, buf_len |-> 0, name_offsets |-> <<>>]
    /\ name = None

FsIdle ==
    /\ clients = <<>>
    /\ accepted = <<>>
    /\ removed = <<>>
    /\ closed = {}
    /\ received = <<>>
    /\ stream = <<>>
    /\ nconn = 0
    /\ nevents = 0
    /\ broke = {}
    /\ reading = None
    /\ backlog = 0
    /\ pc = "off"

FrIdle ==
    /\ variant = "lib"
    /\ path_parsing_state = PartialPathsNew
    /\ event = NoEvent
    /\ out = None
    /\ ret = 0
    /\ tx = <<>>
    /\ group = <<>>
    /\ nrec = 0
    /\ nemit = 0
    /\ panicked = FALSE

InitFR ==
    /\ variant \in {"lib", "ringbuf"}
    /\ path_parsing_state = IF variant = "lib" THEN PartialPathsNew ELSE RingbufPartialPathsNew
    /\ event = NoEvent
    /\ out = None
    /\ ret = 0
    /\ tx = <<>>
    /\ group = <<>>
    /\ nrec = 0
    /\ nemit = 0
    /\ panicked = FALSE
    /\ DecIdle
    /\ FsIdle
    /\ XIdle

NextFR ==
    \/ accumulating_event_handler
    \/ accumulating_event_stream_proxy_ringbuf

SpecFR == InitFR /\ [][NextFR]_vars

-----------------------------------------------------------------------------
(* Vocabulary of the reassembler's properties *)

Cont(b) == [effect_type |-> "Continuation", buf |-> b]
Assoc == [effect_type |-> "Association", buf |-> <<>>]
Term(e) == [effect_type |-> e, buf |-> <<>>]

\* "/" + cn + "/" + ... + "/" + c1 for components c1..cn in arrival order
RECURSIVE JoinReversed(_)
JoinReversed(comps) ==
    IF comps = <<>> THEN <<>>
    ELSE <<"/">> \o comps[Len(comps)] \o JoinReversed(SubSeq(comps, 1, Len(comps) - 1))

Bufs(g, from, to) == [i \in 1 .. (to - from + 1) |-> g[from + i - 1].buf]

Delivered == nrec > 0 /\ ~panicked

\* the current group is continuations c1..cn (n >= 1) and then one terminal record
ContsThenTerminal(g) ==
    /\ Len(g) >= 2
    /\ g[Len(g)].effect_type \in Terminal
    /\ \A i \in 1 .. Len(g) - 1 : g[i].effect_type = "Continuation"

\* the whole input so far is one group
OneGroupInput == Len(group) = nrec

\* the wire meaning of a path_type byte, stated apart from the decoder
WirePathType(b) ==
    IF b = 0 THEN "Dir" ELSE IF b = 1 THEN "File" ELSE IF b = 2 THEN "Symlink"
    ELSE IF b = 3 THEN "Hardlink" ELSE IF b = 4 THEN "Blockdev"
    ELSE IF b = 5 THEN "Socket" ELSE IF b = 6 THEN "Continuation" ELSE "Unknown"

\* C1: ringbuf reassembler, one group of continuations c1..cn then a terminal
\* record: the emitted path_name is "/" + cn + ... + "/" + c1, associated is
\* None, and timestamp, pid and path_type are the terminal record's.  It holds
\* of lib.rs for the current group after any earlier input, and of ingest.rs
\* (ev-ringbuf) when the input is that one group.
C1_PathIsReversedComponents ==
    (Delivered /\ ContsThenTerminal(group) /\ (variant = "lib" \/ OneGroupInput)) =>
        /\ out.some
        /\ out.val.path_name = JoinReversed(Bufs(group, 1, Len(group) - 1))
        /\ out.val.associated = None
        /\ out.val.timestamp = event.timestamp
        /\ out.val.pid = event.pid
        /\ out.val.path_type = WirePathType(event.path_type)
        /\ out.val.effect_type = group[Len(group)].effect_type

\* S1: cont "x", cont "etc", create gives "/etc/x"
C1_Witness ==
    /\ Delivered
    /\ group = <<Cont(<<"x">>), Cont(<<"e", "t", "c">>), Term("Create")>>
    /\ out.some
    /\ out.val.path_name = <<"/", "e", "t", "c", "/", "x">>
    /\ out.val.path_type = "File"

\* C2: ringbuf reassembler: a callback emits an event iff its record is
\* terminal; a Continuation or Association record emits nothing and leaves the
\* state Pending; a terminal record puts exactly one event on the channel and
\* sets the state Complete.
C2_EmitIffTerminal ==
    [][ (~panicked') =>
          LET term == EffectTypeFrom(event'.effect_type) \in Terminal
          IN  /\ out'.some <=> term
              /\ tx' = IF term THEN Append(tx, out'.val) ELSE tx
              /\ nemit' = Len(tx')
              /\ path_parsing_state'.state = IF term THEN "Complete" ELSE "Pending"
      ]_vars

\* [assoc, cont, cont, cont, create] in one group: one event, at the create
C2_Witness ==
    /\ Delivered
    /\ nrec = 5
    /\ [i \in 1 .. Len(group) |-> group[i].effect_type] =
          <<"Association", "Continuation", "Continuation", "Continuation", "Create">>
    /\ out.some
    /\ Len(tx) = 1
    /\ path_parsing_state.state = "Complete"

\* C3: ringbuf reassembler: a record with a new event_group_id discards what
\* was accumulated for the prior group, so the event of a group of
\* continuations and a terminal record is built from that group's components
\* only (S3: cont{gid=3,"x"}, cont{gid=4,"y"}, create{gid=4} emits "/y").
C3_GroupChangeDiscards ==
    (Delivered /\ ContsThenTerminal(group)) =>
        /\ out.some
        /\ out.val.path_name = JoinReversed(Bufs(group, 1, Len(group) - 1))
        /\ out.val.associated = None

\* the current group is a1..am, one Association, b1..bn, then Rename or Link
AssocPosition(g) == CHOOSE k \in 1 .. Len(g) : g[k].effect_type = "Association"

RenameShape(g) ==
    /\ Len(g) >= 4
    /\ g[Len(g)].effect_type \in {"Rename", "Link"}
    /\ Cardinality({k \in 1 .. Len(g) : g[k].effect_type = "Association"}) = 1
    /\ AssocPosition(g) \in 2 .. Len(g) - 2
    /\ \A i \in 1 .. Len(g) - 1 :
          i # AssocPosition(g) => g[i].effect_type = "Continuation"

\* C4: ringbuf reassembler, one group a1..am, Association, b1..bn, Rename or
\* Link: one event with path_name "/" + am/.../a1 and associated
\* "/" + bn/.../b1, with no empty component and no trailing "/" in associated
\* (S2: "/d/a" and "/d/b").
C4_RenameAssociated ==
    (Delivered /\ RenameShape(group) /\ OneGroupInput) =>
        /\ out.some
        /\ out.val.path_name = JoinReversed(Bufs(group, 1, AssocPosition(group) - 1))
        /\ out.val.associated =
              Some(JoinReversed(Bufs(group, AssocPosition(group) + 1, Len(group) - 1)))

\* C5: every emitted event has a terminal effect_type and a path_type other
\* than Continuation.
C5_EmittedTypes ==
    (Delivered /\ out.some) =>
        /\ out.val.effect_type \in Terminal
        /\ out.val.path_type # "Continuation"

\* C6: every emitted path_name is non-empty, begins with "/" and does not end
\* with "/".
C6_PathNameShape ==
    (Delivered /\ out.some) =>
        /\ out.val.path_name # <<>>
        /\ Head(out.val.path_name) = "/"
        /\ out.val.path_name[Len(out.val.path_name)] # "/"

\* C7: an emitted event has associated only if its effect_type is Rename or
\* Link; every Create or Delete event has associated = None.
C7_AssociatedOnlyRenameLink ==
    (Delivered /\ out.some /\ out.val.associated.some) =>
        out.val.effect_type \in {"Rename", "Link"}


SameGroupTerminal(prev, ev) ==
    /\ nrec > 0
    /\ ev.event_group_id = prev.event_group_id
    /\ EffectTypeFrom(ev.effect_type) \in Terminal

Accumulated(self) == [self EXCEPT !.state = "Pending"]

\* C23: ringbuf reassembler: a terminal record leaves the accumulated path
\* segments and associated segments as they were (they are cleared only when
\* a record of another event_group_id arrives), so a second terminal record
\* of the same group emits an event with the same path_name and associated
\* as the first.
C23_TerminalKeepsSegments ==
    [][ (nrec' > nrec /\ SameGroupTerminal(event, event')) =>
            /\ Accumulated(path_parsing_state') = Accumulated(path_parsing_state)
            /\ (EffectTypeFrom(event.effect_type) \in Terminal /\ out.some) =>
                  /\ out'.some
                  /\ out'.val.path_name = out.val.path_name
                  /\ out'.val.associated = out.val.associated
      ]_vars
-----------------------------------------------------------------------------
(* event.rs, ev-array: one record carries the whole path; name_offsets     *)
(* holds the components' end offsets, left-padded with zeros.              *)

NameOffsetsLen == 3

\* the bytes the kernel side left in buf
BufBytes == <<"a", "b", "c", "d", "e", "f">>
BufLens == {4, 6}
OffsetValues == {0, 2, 4, 6}

\* the same with a byte at index 2 that is not UTF-8
BadBufBytes == <<"a", "b", "FF", "d", "e", "f">>

ArrayRecords ==
    { [buf |-> b, buf_len |-> l, name_offsets |-> no] :
        b \in {BufBytes, BadBufBytes}, l \in BufLens,
        no \in [1 .. NameOffsetsLen -> OffsetValues] }

\* the loop of reordered_name_offsets: idx runs from the last index down to
\* the second, beg = name_offsets[idx], end = name_offsets[idx - 1]
RECURSIVE OffsetsLoop(_, _, _)
OffsetsLoop(ev, idx, reordered) ==
    IF idx < 2 THEN reordered
    ELSE LET beg == ev.name_offsets[idx]
             end == ev.name_offsets[idx - 1]
         IN  IF end = 0 THEN reordered
             ELSE IF beg < end /\ end <= ev.buf_len
                  THEN OffsetsLoop(ev, idx - 1, Append(reordered, <<beg, end>>))
                  ELSE OffsetsLoop(ev, idx - 1, reordered)

FinishOffsets(reordered) == Reverse(reordered)

reordered_name_offsets(ev) ==
    FinishOffsets(
        OffsetsLoop(ev, NameOffsetsLen, << <<0, ev.name_offsets[NameOffsetsLen]>> >>))

buf_as_bytes(ev) == SubSeq(ev.buf, 1, ev.buf_len)

\* &buf[beg..end] panics unless beg <= end <= buf.len()
SpanOk(ev, span) == span[1] <= span[2] /\ span[2] <= Len(buf_as_bytes(ev))

RECURSIVE PushPathComponents(_, _, _)
PushPathComponents(ev, spans, acc) ==
    IF spans = <<>> THEN acc
    ELSE PushPathComponents(ev, Tail(spans),
            acc \o <<"/">> \o SubSeq(buf_as_bytes(ev), Head(spans)[1] + 1, Head(spans)[2]))

\* std::str::from_utf8(span).unwrap() on the span's bytes
SpanUtf8(ev, span) == from_utf8(SubSeq(buf_as_bytes(ev), span[1] + 1, span[2])).some

\* Some(name), or None when a slice index or an unwrap panics
reordered_buf_to_string(ev) ==
    LET name_offsets == reordered_name_offsets(ev)
    IN  IF \A i \in 1 .. Len(name_offsets) :
              SpanOk(ev, name_offsets[i]) /\ SpanUtf8(ev, name_offsets[i])
        THEN Some(PushPathComponents(ev, name_offsets, <<>>))
        ELSE None

Decode ==
    /\ pc = "decode"
    /\ raw' \in ArrayRecords
    /\ name' = reordered_buf_to_string(raw')
    /\ UNCHANGED <<frVars, fsVars, xVars>>

InitDecode ==
    /\ FrIdle
    /\ DecIdle
    /\ clients = <<>>
    /\ accepted = <<>>
    /\ removed = <<>>
    /\ closed = {}
    /\ received = <<>>
    /\ stream = <<>>
    /\ nconn = 0
    /\ nevents = 0
    /\ broke = {}
    /\ reading = None
    /\ backlog = 0
    /\ pc = "decode"
    /\ XIdle

NextDecode == Decode

SpecDecode == InitDecode /\ [][NextDecode]_vars

\* the record's name_offsets are zeros and then e_k > ... > e_2 > e_1 > 0,
\* all within buf_len
NonZero(ev) == {i \in 1 .. NameOffsetsLen : ev.name_offsets[i] # 0}

WellFormedOffsets(ev) ==
    /\ ev.name_offsets # <<>>
    /\ NonZero(ev) # {}
    /\ \A i \in NonZero(ev) : \A j \in i .. NameOffsetsLen : j \in NonZero(ev)
    /\ \A i \in NonZero(ev) : ev.name_offsets[i] <= ev.buf_len
    /\ \A i \in NonZero(ev) :
          i < NameOffsetsLen => ev.name_offsets[i] > ev.name_offsets[i + 1]

\* "/" + buf[0..e_1] + "/" + buf[e_1..e_2] + ... in increasing buffer order:
\* the component that ends at name_offsets[i] begins where the one to its
\* right ends
RECURSIVE InBufferOrder(_, _)
InBufferOrder(ev, i) ==
    IF i < 1 \/ ev.name_offsets[i] = 0 THEN <<>>
    ELSE <<"/">>
         \o SubSeq(ev.buf,
                   (IF i = NameOffsetsLen THEN 0 ELSE ev.name_offsets[i + 1]) + 1,
                   ev.name_offsets[i])
         \o InBufferOrder(ev, i - 1)

\* C8: array mode: for name_offsets ending in e_k, ..., e_2, e_1 with
\* 0 < e_1 < ... < e_k <= buf_len the path is "/" + buf[0..e_1] + "/" +
\* buf[e_1..e_2] + ... + "/" + buf[e_(k-1)..e_k], the components in
\* increasing buffer order (S4: offsets [0,...,0,6,4,2] over "abcdef" give
\* "/ab/cd/ef").
C8_ArrayPathInBufferOrder ==
    WellFormedOffsets(raw) =>
        name = Some(InBufferOrder(raw, NameOffsetsLen))

\* C21: array mode never reads outside the valid buffer: every span
\* (beg, end) used to build the path, the leftmost span that starts at 0
\* included, satisfies beg < end <= buf_len, and the record still yields a
\* path from the spans that remain.
C21_SpansWithinBuffer ==
    raw.name_offsets # <<>> =>
        /\ \A i \in 1 .. Len(reordered_name_offsets(raw)) :
              LET span == reordered_name_offsets(raw)[i]
              IN  span[1] < span[2] /\ span[2] <= raw.buf_len
        /\ name.some

-----------------------------------------------------------------------------
(* unix_sock_stream_server.rs: the accepter thread, the subscribers and    *)
(* the main loop of Server::try_send_fs_events_blocking.  A subscriber is  *)
(* named by the order in which the accepter accepted it.  Indices are the  *)
(* Vec's, counted from 0.                                                  *)

MaxSubs == 3
MaxFsEvents == 3

Greetings == {"utf8", "eof", "invalid", "error"}

Range(f) == {f[i] : i \in DOMAIN f}

\* a variant that removes as Vec::swap_remove does: the last element takes
\* the removed one's place
VecSwapRemove(v, index) ==
    IF index < Len(v)
    THEN Some([i \in 1 .. Len(v) - 1 |-> IF i = index + 1 THEN v[Len(v)] ELSE v[i]])
    ELSE None

\* Vec::remove(index): None when index >= len (the call panics)
VecRemove(v, index) ==
    IF index < Len(v)
    THEN Some([i \in 1 .. Len(v) - 1 |-> IF i <= index THEN v[i] ELSE v[i + 1]])
    ELSE None

\* spawn_accept_task, one turn of its loop: accept, read the greeting, and
\* send the stream on unless the read returned 0 bytes or invalid UTF-8
Accept ==
    /\ pc \in {"accept", "prune", "poll"}
    /\ ~reading.some
    /\ nconn + backlog < MaxSubs
    /\ \E greeting \in Greetings :
        /\ nconn' = nconn + 1
        /\ received' = Append(received, <<>>)
        /\ stream' = Append(stream, <<>>)
        /\ IF greeting \in {"utf8", "error"}
           THEN accepted' = Append(accepted, nconn + 1)
           ELSE UNCHANGED accepted
    /\ UNCHANGED <<clients, removed, closed, nevents, broke, pc, reading, backlog, frVars, decVars, xVars>>

\* a subscriber closes its end of the socket
Close ==
    /\ pc \in {"accept", "prune", "poll"}
    /\ \E s \in (Range(accepted) \cup Range(clients)) \ closed :
        closed' = closed \cup {s}
    /\ UNCHANGED <<clients, accepted, removed, received, stream, nconn, nevents, broke, pc,
                   reading, backlog, frVars, decVars, xVars>>

\* if let Ok(stream) = self.accepted_rx.try_recv() { self.clients.push(stream) }
RecvAccepted ==
    /\ pc = "accept"
    /\ IF accepted # <<>>
       THEN /\ clients' = Append(clients, Head(accepted))
            /\ accepted' = Tail(accepted)
       ELSE UNCHANGED <<clients, accepted>>
    /\ pc' = "prune"
    /\ UNCHANGED <<removed, closed, received, stream, nconn, nevents, broke, reading, backlog, frVars, decVars, xVars>>

\* if let Ok(client) = self.removed_rx.try_recv() { self.clients.remove(client) }
RecvRemoved ==
    /\ pc = "prune"
    /\ IF removed # <<>>
       THEN /\ removed' = Tail(removed)
            /\ IF VecRemove(clients, Head(removed)).some
               THEN /\ clients' = VecRemove(clients, Head(removed)).val
                    /\ pc' = "poll"
               ELSE /\ pc' = "panicked"
                    /\ UNCHANGED clients
       ELSE /\ pc' = "poll"
            /\ UNCHANGED <<clients, removed>>
    /\ UNCHANGED <<accepted, closed, received, stream, nconn, nevents, broke, reading, backlog, frVars, decVars, xVars>>

\* write_all to one subscriber: BrokenPipe when its end is closed
WriteAll(s) == IF s \in closed THEN "BrokenPipe" ELSE "Ok"

BrokenIndex(idx) == idx

\* the indices the write loop sends on removed_tx, in loop order
RECURSIVE SentIndices(_, _)
SentIndices(v, idx) ==
    IF idx >= Len(v) THEN <<>>
    ELSE (IF WriteAll(v[idx + 1]) = "BrokenPipe" THEN <<BrokenIndex(idx)>> ELSE <<>>)
         \o SentIndices(v, idx + 1)

Written(v, s) == s \in Range(v) /\ WriteAll(s) = "Ok"

\* (self.event_serializer)(event): the event's bytes, MsgLen of them
MsgLen == 2

Serialized(e) == [i \in 1 .. MsgLen |-> [event |-> e, byte |-> i]]

\* self.watcher.poll_indefinite()? and, on an event, the write loop.  part
\* maps each subscriber whose write_all fails with an error other than
\* BrokenPipe to the number of bytes written before the error; such a
\* subscriber is only logged ("write error") and stays in the list.
PollEventWithDrops(part) ==
    /\ pc = "poll"
    /\ nevents < MaxFsEvents
    /\ nevents' = nevents + 1
    /\ received' = [s \in DOMAIN received |->
                      IF Written(clients, s) /\ s \notin DOMAIN part
                      THEN Append(received[s], nevents + 1)
                      ELSE received[s]]
    /\ stream' = [s \in DOMAIN stream |->
                    IF ~Written(clients, s) THEN stream[s]
                    ELSE IF s \in DOMAIN part
                    THEN stream[s] \o SubSeq(Serialized(nevents + 1), 1, part[s])
                    ELSE stream[s] \o Serialized(nevents + 1)]
    /\ clients' = SelectSeq(clients, LAMBDA s : WriteAll(s) = "Ok")
    /\ broke' = broke \cup {s \in Range(clients) : WriteAll(s) = "BrokenPipe"}
    /\ pc' = "accept"
    /\ UNCHANGED <<removed, accepted, closed, nconn, reading, backlog, frVars, decVars, xVars>>

PollEventWith(part) ==
    /\ pc = "poll"
    /\ nevents < MaxFsEvents
    /\ nevents' = nevents + 1
    /\ received' = [s \in DOMAIN received |->
                      IF Written(clients, s) /\ s \notin DOMAIN part
                      THEN Append(received[s], nevents + 1)
                      ELSE received[s]]
    /\ stream' = [s \in DOMAIN stream |->
                    IF ~Written(clients, s) THEN stream[s]
                    ELSE IF s \in DOMAIN part
                    THEN stream[s] \o SubSeq(Serialized(nevents + 1), 1, part[s])
                    ELSE stream[s] \o Serialized(nevents + 1)]
    /\ removed' = removed \o SentIndices(clients, 0)
    /\ broke' = broke \cup {s \in Range(clients) : WriteAll(s) = "BrokenPipe"}
    /\ pc' = "accept"
    /\ UNCHANGED <<clients, accepted, closed, nconn, reading, backlog, frVars, decVars, xVars>>

\* every write_all returns Ok or BrokenPipe
PollEvent == PollEventWith(<<>>)

\* some write_all returns another error, after part of the bytes or none
PollEventWriteError ==
    \E errs \in SUBSET {s \in Range(clients) : s \notin closed} :
        /\ errs # {}
        /\ \E part \in [errs -> 0 .. MsgLen - 1] : PollEventWith(part)

PollNone ==
    /\ pc = "poll"
    /\ pc' = "accept"
    /\ UNCHANGED <<clients, accepted, removed, closed, received, stream, nconn, nevents, broke,
                   reading, backlog, frVars, decVars, xVars>>

\* poll_indefinite fails: the ? returns the error and main leaves its loop
PollErr ==
    /\ pc = "poll"
    /\ pc' = "stopped"
    /\ UNCHANGED <<clients, accepted, removed, closed, received, stream, nconn, nevents, broke,
                   reading, backlog, frVars, decVars, xVars>>

InitFS ==
    /\ FrIdle
    /\ DecIdle
    /\ clients = <<>>
    /\ accepted = <<>>
    /\ removed = <<>>
    /\ closed = {}
    /\ received = <<>>
    /\ stream = <<>>
    /\ nconn = 0
    /\ nevents = 0
    /\ broke = {}
    /\ reading = None
    /\ backlog = 0
    /\ pc = "accept"
    /\ XIdle

NextFS ==
    \/ Accept
    \/ Close
    \/ RecvAccepted
    \/ RecvRemoved
    \/ PollEvent
    \/ PollNone
    \/ PollErr

SpecFS == InitFS /\ [][NextFS]_vars

\* the server with write errors other than BrokenPipe
NextFSWrite ==
    \/ NextFS
    \/ PollEventWriteError

SpecFSWrite == InitFS /\ [][NextFSWrite]_vars

\* The accepter thread's blocking points.  The listener and the streams it
\* returns are blocking (srv.set_nonblocking(false)): accept() waits for a
\* connection and stream.read waits for the client's first bytes.  A client
\* built by Client::try_new has connected and written "hello" before it is
\* accepted; a silent client connects, sends nothing and stays connected.

MaxBacklog == 2

\* Client::try_new: connect, then write_all(b"hello"); the connection waits
\* in the listener's queue
Connect ==
    /\ pc \in {"accept", "prune", "poll"}
    /\ backlog < MaxBacklog
    /\ nconn + backlog < MaxSubs
    /\ backlog' = backlog + 1
    /\ UNCHANGED <<clients, accepted, removed, closed, received, stream, nconn, nevents, broke,
                   pc, reading, frVars, decVars, xVars>>

\* the loop's turn for a waiting client: accept returns its stream, read
\* returns its greeting, and the stream is sent on
AcceptGreeted ==
    /\ pc \in {"accept", "prune", "poll"}
    /\ ~reading.some
    /\ backlog > 0
    /\ backlog' = backlog - 1
    /\ nconn' = nconn + 1
    /\ received' = Append(received, <<>>)
    /\ stream' = Append(stream, <<>>)
    /\ accepted' = Append(accepted, nconn + 1)
    /\ UNCHANGED <<clients, removed, closed, nevents, broke, pc, reading,
                   frVars, decVars, xVars>>

\* accept returns the stream of a silent client: stream.read does not return
AcceptSilent ==
    /\ pc \in {"accept", "prune", "poll"}
    /\ ~reading.some
    /\ nconn + backlog < MaxSubs
    /\ nconn' = nconn + 1
    /\ received' = Append(received, <<>>)
    /\ stream' = Append(stream, <<>>)
    /\ reading' = Some(nconn + 1)
    /\ UNCHANGED <<clients, accepted, removed, closed, nevents, broke, pc, backlog,
                   frVars, decVars, xVars>>

NextAccept ==
    \/ NextFS
    \/ Connect
    \/ AcceptGreeted
    \/ AcceptSilent

SpecAccept == InitFS /\ [][NextAccept]_vars

\* C32: a client that connects and never sends a greeting (and never
\* disconnects) does not keep other clients from being admitted: whenever a
\* client that has connected and sent its greeting is waiting, the accepter
\* can take its turn for it, accept it and forward it on the accept-channel,
\* from where the main loop adds it to the subscriber list.
C32_SilentClientDoesNotBlock ==
    (pc \in {"accept", "prune", "poll"} /\ backlog > 0) => ENABLED AcceptGreeted

Last(q) == q[Len(q)]
Without(v, s) == SelectSeq(v, LAMBDA x : x # s)

\* C9: a subscriber none of whose writes has failed with broken-pipe is never
\* removed from the subscriber list, and is written every event the watcher
\* returns while it is in the list, whatever other subscribers break.
C9_HealthyNeverRemoved ==
    [][ \A s \in Range(clients) :
          s \notin broke' =>
            /\ s \in Range(clients')
            /\ nevents' > nevents =>
                  (received'[s] # <<>> /\ Last(received'[s]) = nevents')
      ]_vars

\* the server has accepted two connections, both are in the list, A's socket
\* is closed and B's is open
TwoSubsOneClosed(a, b) ==
    /\ nconn = 2
    /\ Range(clients) = {a, b}
    /\ a # b
    /\ a \in closed
    /\ b \notin closed

\* C10: two subscribers A and B, A's socket closed: on the event whose write
\* to A fails with broken-pipe, B is written that event, A stays in the list
\* for the rest of that iteration with its index queued on the prune-channel;
\* the prune step of the next iteration removes A and only A.
C10_PrunedNextIteration ==
    [][ /\ \A a, b \in 1 .. nconn :
            (TwoSubsOneClosed(a, b) /\ nevents' > nevents) =>
                /\ clients' = clients
                /\ Last(received'[b]) = nevents'
                /\ received'[a] = received[a]
                /\ broke' = {a}
                /\ Len(removed') = 1
                /\ clients[Head(removed') + 1] = a
        /\ \A a \in 1 .. nconn :
            (/\ pc = "prune"
             /\ pc' # "prune"
             /\ broke = {a}
             /\ a \in Range(clients)) =>
                /\ clients' = Without(clients, a)
                /\ Len(clients') = Len(clients) - 1
                /\ removed' = <<>>
                /\ pc' = "poll"
      ]_vars

\* A was accepted first and B second; A broke on event 1, which B received;
\* the next iteration's prune step has left B alone in the list
C10_Witness ==
    /\ pc = "poll"
    /\ clients = <<2>>
    /\ broke = {1}
    /\ nevents = 1
    /\ received[2] = <<1>>
    /\ received[1] = <<>>
    /\ removed = <<>>

\* st is a concatenation of whole serialized events, the last of which may
\* be cut short by a failed write
RECURSIVE WholeEvents(_)
WholeEvents(st) ==
    \/ st = <<>>
    \/ /\ Len(st) < MsgLen
       /\ st = SubSeq(Serialized(st[1].event), 1, Len(st))
    \/ /\ Len(st) >= MsgLen
       /\ SubSeq(st, 1, MsgLen) = Serialized(st[1].event)
       /\ WholeEvents(SubSeq(st, MsgLen + 1, Len(st)))

\* C11: for every subscriber the bytes written to its stream are a
\* concatenation of whole encoded events, never a part of one event followed
\* by bytes of another; also after a write to it failed with an error other
\* than broken-pipe and the subscriber was retained.
C11_StreamOfWholeEvents ==
    \A s \in DOMAIN stream : WholeEvents(stream[s])

\* C24: at the start of each iteration of the main loop, before the watcher
\* is polled, the accept-channel and the prune-channel are drained
\* completely: the step that takes from the accept-channel leaves it empty,
\* and the prune-channel, which only the main loop's own write step fills,
\* is empty when the poll begins.
C24_ChannelsDrained ==
    [][ /\ (pc = "accept" /\ pc' = "prune") => accepted' = <<>>
        /\ (pc = "prune" /\ pc' = "poll") => removed' = <<>>
      ]_vars

\* C25: every stream that accept() returns is forwarded on the
\* accept-channel after its greeting has been read, whatever the greeting's
\* content or length (and whether or not the read failed), and the accepter
\* goes on accepting.
C25_EveryStreamForwarded ==
    [][ nconn' > nconn =>
            /\ accepted' = Append(accepted, nconn')
            /\ clients' = clients
      ]_vars

\* the list without the entry at the 0-based position idx
RemovedAt(v, idx) == [i \in 1 .. Len(v) - 1 |-> IF i <= idx THEN v[i] ELSE v[i + 1]]

\* C28: the subscriber list is changed only by the main loop, and only by
\* appending the stream it takes from the accept-channel or by removing the
\* entry at the index it takes from the prune-channel; the write step and
\* the accepter thread never add, remove or reorder subscribers.
C28_ListChangedByMainLoopOnly ==
    [][ /\ clients' # clients =>
              \/ /\ pc = "accept"
                 /\ accepted # <<>>
                 /\ accepted' = Tail(accepted)
                 /\ clients' = Append(clients, Head(accepted))
              \/ /\ pc = "prune"
                 /\ removed # <<>>
                 /\ removed' = Tail(removed)
                 /\ Head(removed) < Len(clients)
                 /\ clients' = RemovedAt(clients, Head(removed))
        /\ (nevents' > nevents \/ nconn' > nconn \/ closed' # closed) => clients' = clients
      ]_vars

\* subscriber 1 broke on event 1 and stayed in the list through the write
\* step; the prune step has since removed it, and a third connection waits
\* on the accept-channel
C28_Witness ==
    /\ nevents = 1
    /\ broke = {1}
    /\ clients = <<2>>
    /\ accepted = <<3>>
    /\ received[2] = <<1>>

\* C29: every index taken from the prune-channel is, when it is applied, a
\* valid position of the list (index < length) and names a subscriber whose
\* write failed with broken-pipe, in every interleaving, so that the removal
\* never goes out of bounds.
C29_PruneIndexValid ==
    [][ (pc = "prune" /\ removed # <<>> /\ pc' # "prune") =>
            /\ Head(removed) < Len(clients)
            /\ clients[Head(removed) + 1] \in broke
            /\ pc' = "poll"
      ]_vars
-----------------------------------------------------------------------------
(* lib.rs FsEvents and the callbacks of lib.rs and ingest.rs.  While       *)
(* self.ringbuf.poll is under way the kernel channel hands each record to  *)
(* the callback; poll_with_timeout then takes at most one event from the   *)
(* mpsc channel, and its caller writes that event out before it polls      *)
(* again.  The caller here is the server with one open subscriber.  Once   *)
(* the Receiver is dropped nothing polls through FsEvents any more, and    *)
(* the channel's consumer still runs the callback for each record.         *)

MaxWatcherRecords == 4

Durations == {"zero", "some", "max"}

\* the records of one behaviour: a Create, a record that completes nothing
\* (a Continuation in ringbuf mode, an Association in array mode), a record
\* with an effect_type byte outside 0..5, bytes of the wrong length, and a
\* record whose path bytes are not UTF-8.  In array mode the path is the
\* first o bytes of the name buffer; in ringbuf mode only a Continuation
\* carries path bytes.
WatcherRecords(n) ==
    LET rec(e, t, b, o, ok) ==
            [timestamp |-> 1000 * n, pid |-> Pid(n), effect_type |-> e, path_type |-> t,
             buf |-> b, event_group_id |-> 1, buf_len |-> 4,
             name_offsets |-> [i \in 1 .. NameOffsetsLen |-> IF i = NameOffsetsLen THEN o ELSE 0],
             len_ok |-> ok]
    IN  IF variant = "array"
        THEN { rec(0, 1, BufBytes, 2, TRUE),
               rec(5, 1, BufBytes, 4, TRUE),
               rec(6, 6, BufBytes, 2, TRUE),
               rec(4, 6, BufBytes, 2, FALSE),
               rec(0, 1, BadBufBytes, 4, TRUE) }
        ELSE { rec(0, 1, <<>>, 2, TRUE),
               rec(4, 6, <<"x">>, 2, TRUE),
               rec(6, 6, <<>>, 2, TRUE),
               rec(4, 6, <<>>, 2, FALSE),
               rec(4, 6, <<"x", "FF">>, 2, TRUE) }

\* ingest.rs, ev-array: PartialPaths with a String and an Option<String>
ArrayPartialPathsNew == [path_name |-> <<>>, associated |-> None, state |-> "Pending"]

\* a variant whose terminal arm keeps the pending association
array_continue_with_keeps(self, ev) ==
    LET effect_type == EffectTypeFrom(ev.effect_type)
    IN  IF effect_type = "Association"
        THEN [self |-> [self EXCEPT !.associated = reordered_buf_to_string(ev)],
              out |-> None]
        ELSE [self |-> self,
              out |-> Some(MakeEvent(reordered_buf_to_string(ev).val, self.associated,
                                     ev, effect_type))]

array_continue_with(self, ev) ==
    LET effect_type == EffectTypeFrom(ev.effect_type)
    IN  IF effect_type = "Association"
        THEN [self |-> [self EXCEPT !.associated = reordered_buf_to_string(ev)],
              out |-> None]
        ELSE [self |-> [self EXCEPT !.associated = None],
              out |-> Some(MakeEvent(reordered_buf_to_string(ev).val, self.associated,
                                     ev, effect_type))]

\* plain::from_bytes / plain::copy_from_bytes: the bytes have the record's size
Decodes(ev) == ev.len_ok

\* EffectType::from hits unreachable!(), a slice of the name buffer is out
\* of range, or from_utf8(..).unwrap() meets bytes that are not UTF-8: in
\* lib.rs when a Continuation's bytes are read, in ingest.rs (ev-ringbuf)
\* for every record, whose path bytes continue_with prints before its match
Panics(ev) ==
    \/ EffectTypeFrom(ev.effect_type) = "unreachable"
    \/ variant = "array" /\ ~reordered_buf_to_string(ev).some
    \/ variant = "lib" /\ EffectTypeFrom(ev.effect_type) = "Continuation"
                       /\ ~from_utf8(ev.buf).some
    \/ variant = "ringbuf" /\ ~from_utf8(ev.buf).some

\* one call of a callback on record ev.  res is what continue_with makes of
\* ev; gives_up is the code the callback returns when it cannot decode or
\* cannot send (ringbuf: 1; array: the callback returns unit, and the
\* channel goes on as after 0); cleared is the PartialPaths left behind when
\* the callback panics.
Callback(ev, res, gives_up, cleared) ==
    /\ event' = ev
    /\ nrec' = nrec + 1
    /\ consumed' = TRUE
    /\ yielded' = IF Decodes(ev) /\ ~Panics(ev) /\ ev.effect_type \in TerminalBytes /\ rx_alive
                  THEN Append(yielded, ev.timestamp)
                  ELSE yielded
    /\ IF ~Decodes(ev)
       THEN /\ out' = None
            /\ ret' = gives_up
            /\ UNCHANGED <<path_parsing_state, tx, nemit, panicked>>
       ELSE IF Panics(ev)
       THEN /\ panicked' = TRUE
            /\ path_parsing_state' = cleared
            /\ UNCHANGED <<out, ret, tx, nemit>>
       ELSE /\ path_parsing_state' = res.self
            /\ out' = res.out
            /\ IF res.out.some /\ rx_alive
               THEN /\ tx' = Append(tx, res.out.val)
                    /\ nemit' = nemit + 1
                    /\ ret' = 0
               ELSE /\ ret' = IF res.out.some THEN gives_up ELSE 0
                    /\ UNCHANGED <<tx, nemit>>
            /\ UNCHANGED panicked
    \* what the channel does with a nonzero code is the library's business:
    \* it stops the poll with an error, or goes on
    /\ kerr' \in (IF ret' # 0 THEN BOOLEAN ELSE {FALSE})
    /\ UNCHANGED <<variant, group, rx_alive, wpc, duration, kpoll, result, polled,
                   decVars, fsVars, stVars, encVars>>

CallbackRuns ==
    /\ wpc = "polling" \/ (wpc = "idle" /\ ~rx_alive)
    /\ ~kerr
    /\ ~panicked
    /\ nrec < MaxWatcherRecords

\* lib.rs accumulating_event_handler, under poll
HandlerLib ==
    /\ variant = "lib"
    /\ CallbackRuns
    /\ \E ev \in WatcherRecords(nrec + 1) :
         Callback(ev, continue_with(path_parsing_state, ev), 1,
                  ClearOnGroupChange(path_parsing_state, ev))

\* ingest.rs accumulating_event_stream_proxy (ev-ringbuf), under poll
ProxyRingbuf ==
    /\ variant = "ringbuf"
    /\ CallbackRuns
    /\ \E ev \in WatcherRecords(nrec + 1) :
         Callback(ev, ringbuf_continue_with(path_parsing_state, ev), 1, path_parsing_state)

\* ingest.rs accumulating_event_stream_proxy (ev-array)
ProxyArray ==
    /\ variant = "array"
    /\ CallbackRuns
    /\ \E ev \in WatcherRecords(nrec + 1) :
         Callback(ev, array_continue_with(path_parsing_state, ev), 0, path_parsing_state)

\* poll_with_timeout enters self.ringbuf.poll(duration)
poll_with_timeout(d) ==
    /\ wpc = "idle"
    /\ rx_alive
    /\ ~panicked
    /\ wpc' = "polling"
    /\ duration' = d
    /\ consumed' = FALSE
    /\ kerr' = FALSE
    /\ UNCHANGED <<frVars, decVars, fsVars, stVars, encVars, rx_alive, kpoll, result, polled, yielded>>

poll_immediate == poll_with_timeout("zero")

poll_indefinite == poll_with_timeout("max")

\* a variant that takes the newest event of the queue
TryRecvNewest(q, sender_alive) ==
    IF q # <<>> THEN [kind |-> "Ok", val |-> q[Len(q)]]
    ELSE IF sender_alive THEN [kind |-> "Empty"]
    ELSE [kind |-> "Disconnected"]

\* Receiver::try_recv.  The Sender lives in the callback, which self.ringbuf
\* owns, so it exists whenever poll_with_timeout runs.
TryRecv(q, sender_alive) ==
    IF q # <<>> THEN [kind |-> "Ok", val |-> Head(q)]
    ELSE IF sender_alive THEN [kind |-> "Empty"]
    ELSE [kind |-> "Disconnected"]

\* a variant that reports an empty queue as an error
PollResultEmptyIsErr(kp, rcv) ==
    IF kp = "Ok" /\ rcv.kind = "Ok" THEN [kind |-> "Some", val |-> rcv.val]
    ELSE [kind |-> "Err"]

\* the two matches of poll_with_timeout
PollResult(kp, rcv) ==
    IF kp = "Ok"
    THEN CASE rcv.kind = "Ok" -> [kind |-> "Some", val |-> rcv.val]
           [] rcv.kind = "Empty" -> [kind |-> "None"]
           [] OTHER -> [kind |-> "Err"]
    ELSE [kind |-> "Err"]

\* self.ringbuf.poll returns Ok: with no timeout it has waited for a record
PollReturns ==
    /\ wpc = "polling"
    /\ ~kerr
    /\ ~panicked
    /\ duration = "max" => consumed
    /\ kpoll' = "Ok"
    /\ result' = PollResult("Ok", TryRecv(tx, TRUE))
    /\ IF result'.kind = "Some"
       THEN /\ tx' = Tail(tx)
            /\ polled' = Append(polled, result'.val)
            /\ wpc' = "write"
       ELSE /\ wpc' = "idle"
            /\ UNCHANGED <<tx, polled>>
    /\ UNCHANGED <<variant, path_parsing_state, event, out, ret, group, nrec, nemit, panicked,
                   decVars, fsVars, stVars, encVars, rx_alive, duration, consumed, kerr, yielded>>

\* self.ringbuf.poll returns Err: the wait failed, or the callback's code
\* stopped it
PollFails ==
    /\ wpc = "polling"
    /\ ~panicked
    /\ kpoll' = "Err"
    /\ result' = PollResult("Err", TryRecv(tx, TRUE))
    /\ wpc' = "idle"
    /\ UNCHANGED <<frVars, decVars, fsVars, stVars, encVars, rx_alive, duration, consumed, kerr, polled,
                   yielded>>

\* the caller's write loop for the event poll_indefinite returned
WriteLoop ==
    /\ wpc = "write"
    /\ received' = [s \in DOMAIN received |->
                      IF Written(clients, s) THEN Append(received[s], result.val.timestamp)
                      ELSE received[s]]
    /\ wpc' = "idle"
    /\ UNCHANGED <<frVars, decVars, clients, accepted, removed, closed, stream, nconn, nevents,
                   broke, pc, reading, backlog, stVars, encVars, rx_alive, duration, consumed, kerr, kpoll, result, polled,
                   yielded>>

\* the Receiver is dropped
DropReceiver ==
    /\ wpc = "idle"
    /\ rx_alive
    /\ rx_alive' = FALSE
    /\ UNCHANGED <<frVars, decVars, fsVars, stVars, encVars, wpc, duration, consumed, kerr, kpoll,
                   result, polled, yielded>>

InitWatcher ==
    /\ variant \in {"lib", "ringbuf", "array"}
    /\ path_parsing_state = CASE variant = "lib" -> PartialPathsNew
                              [] variant = "ringbuf" -> RingbufPartialPathsNew
                              [] OTHER -> ArrayPartialPathsNew
    /\ event = NoEvent
    /\ out = None
    /\ ret = 0
    /\ tx = <<>>
    /\ group = <<>>
    /\ nrec = 0
    /\ nemit = 0
    /\ panicked = FALSE
    /\ DecIdle
    /\ clients = <<1>>
    /\ accepted = <<>>
    /\ removed = <<>>
    /\ closed = {}
    /\ received = << <<>> >>
    /\ stream = << <<>> >>
    /\ nconn = 1
    /\ nevents = 0
    /\ broke = {}
    /\ reading = None
    /\ backlog = 0
    /\ pc = "off"
    /\ WfIdle
    /\ StIdle
    /\ EncIdle

NextWatcher ==
    \/ HandlerLib
    \/ ProxyRingbuf
    \/ ProxyArray
    \/ \E d \in Durations : poll_with_timeout(d)
    \/ poll_immediate
    \/ poll_indefinite
    \/ PollReturns
    \/ PollFails
    \/ WriteLoop
    \/ DropReceiver

SpecWatcher == InitWatcher /\ [][NextWatcher]_vars

Timestamps(q) == [i \in 1 .. Len(q) |-> q[i].timestamp]

\* C12: the events successive polls return are, in order, those of the
\* terminal records the kernel channel yielded, each once: none is returned
\* twice, and while the Receiver exists each one yielded is either returned
\* or still queued, in the order yielded; the server writes them to its
\* subscriber in that same order.
C12_PolledInYieldOrder ==
    /\ Len(polled) <= Len(yielded)
    /\ Timestamps(polled) = SubSeq(yielded, 1, Len(polled))
    /\ rx_alive => Timestamps(polled \o tx) = yielded
    /\ received[1] = SubSeq(Timestamps(polled), 1, Len(received[1]))
    /\ Len(received[1]) = Len(polled) - (IF wpc = "write" THEN 1 ELSE 0)

\* two events were completed within one poll, both have been returned and
\* written, and a third is queued
C12_Witness ==
    /\ Len(polled) = 2
    /\ Len(received[1]) = 2
    /\ Len(tx) = 1
    /\ rx_alive
\* C13: when the Receiver has been dropped, the callback's call on the next
\* record that completes an event returns a nonzero code, and it returns 0
\* whenever no event was completed or the send succeeded; in every wire
\* variant of the callback.
C13_StopCodeWhenReceiverGone ==
    [][ (nrec' > nrec /\ Decodes(event') /\ ~panicked') =>
            (ret' # 0 <=> (out'.some /\ ~rx_alive))
      ]_vars

Undecodable(ev) == ~Decodes(ev) \/ ev.effect_type \notin 0 .. 5

\* C14: a record that cannot be decoded (bytes of the wrong length, or an
\* effect_type outside 0..5) is dropped: the callback sends no event, leaves
\* the reassembly state as it was and does not abort the process, so that
\* the records that follow can still be handled.
C14_UndecodableDropped ==
    [][ (nrec' > nrec /\ Undecodable(event')) =>
            /\ tx' = tx
            /\ path_parsing_state' = path_parsing_state
            /\ ~panicked'
      ]_vars

\* C15: poll_with_timeout returns Ok(Some(e)) only when e was taken from the
\* head of the queue, Ok(None) only when the kernel poll succeeded and the
\* queue was empty, Err only when the kernel poll failed (the Sender cannot
\* be gone); poll_immediate and poll_indefinite are poll_with_timeout with a
\* zero and a maximal timeout.
C15_PollOutcomes ==
    [][ /\ (wpc = "polling" /\ wpc' # "polling") =>
              /\ result'.kind \in {"Some", "None", "Err"}
              /\ result'.kind = "Some" =>
                    /\ kpoll' = "Ok"
                    /\ tx # <<>>
                    /\ result'.val = Head(tx)
                    /\ tx' = Tail(tx)
              /\ result'.kind = "None" =>
                    /\ kpoll' = "Ok"
                    /\ tx = <<>>
                    /\ tx' = tx
              /\ result'.kind = "Err" =>
                    /\ kpoll' = "Err"
                    /\ tx' = tx
        /\ poll_immediate <=> poll_with_timeout("zero")
        /\ poll_indefinite <=> poll_with_timeout("max")
      ]_vars

\* a poll without timeout has returned the older of two queued events
C15_Witness ==
    /\ wpc = "write"
    /\ duration = "max"
    /\ result.kind = "Some"
    /\ Len(tx) = 1
    /\ result.val.timestamp < tx[1].timestamp

\* C22: array mode: an Association record stores its decoded path as the
\* pending association and emits nothing; the next record that is not an
\* Association emits one event whose associated is that pending path and
\* clears it, so an association is attached to one event only and every
\* later event has associated = None until another Association arrives.
C22_ArrayAssociation ==
    [][ (variant = "array" /\ nrec' > nrec /\ Decodes(event') /\ ~panicked') =>
            IF EffectTypeFrom(event'.effect_type) = "Association"
            THEN /\ path_parsing_state'.associated = reordered_buf_to_string(event')
                 /\ out' = None
                 /\ tx' = tx
                 /\ nemit' = nemit
            ELSE /\ out'.some
                 /\ out'.val.associated = path_parsing_state.associated
                 /\ out'.val.path_name = reordered_buf_to_string(event').val
                 /\ path_parsing_state'.associated = None
                 /\ rx_alive => (tx' = Append(tx, out'.val) /\ nemit' = nemit + 1)
      ]_vars

\* an Association and two records after it: the first event carries the
\* association's path, the second carries none
C22_Witness ==
    /\ variant = "array"
    /\ Len(polled \o tx) = 2
    /\ (polled \o tx)[1].associated = Some(<<"/", "a", "b", "c", "d">>)
    /\ (polled \o tx)[1].path_name = <<"/", "a", "b">>
    /\ (polled \o tx)[2].associated = None
    /\ path_parsing_state.associated = None

\* the record's path bytes are not valid UTF-8
NotUtf8(ev) ==
    IF variant = "array" THEN ~from_utf8(buf_as_bytes(ev)).some
    ELSE ~from_utf8(ev.buf).some

\* C27: a record whose path bytes are not valid UTF-8 does not abort
\* reassembly: the offending component is dropped, the process keeps
\* running, and the terminal record of the group still emits an event from
\* the components that remain.
C27_BadUtf8Dropped ==
    [][ (nrec' > nrec /\ Decodes(event') /\ event'.effect_type \in 0 .. 5
            /\ NotUtf8(event')) =>
            /\ ~panicked'
            /\ event'.effect_type \in TerminalBytes => out'.some
            /\ event'.effect_type \notin TerminalBytes =>
                  Accumulated(path_parsing_state') = Accumulated(path_parsing_state)
      ]_vars

\* C30: every event placed on the event queue is eventually returned by a
\* poll when the caller polls repeatedly with poll_indefinite, even if the
\* kernel channel yields no further records after the poll in which several
\* terminal records completed: a poll_indefinite entered after a successful
\* poll, with events still queued, can return without a further record
\* being consumed.
C30_BacklogReturnedWithoutNewRecord ==
    (/\ wpc = "polling"
     /\ duration = "max"
     /\ kpoll = "Ok"
     /\ tx # <<>>
     /\ ~kerr
     /\ ~panicked) =>
        ENABLED PollReturns
-----------------------------------------------------------------------------
(* unix_sock_stream_server.rs: Server::try_new, the accepter thread's bind *)
(* and Drop, for the server processes that share one sockpath.  A process  *)
(* is named by its pid.  The server role installs no signal handler, so    *)
(* SIGTERM ends the process at once, running no destructor: the signalled  *)
(* process takes no further step.                                          *)

DigitChars == <<"0", "1", "2", "3", "4", "5", "6", "7", "8", "9">>

\* u32 / u64 to_string
RECURSIVE to_string(_)
to_string(n) ==
    IF n < 10 THEN <<DigitChars[n + 1]>>
    ELSE to_string(n \div 10) \o <<DigitChars[(n % 10) + 1]>>

IsDigit(c) == \E d \in 1 .. 10 : DigitChars[d] = c

DigitValue(c) == (CHOOSE d \in 1 .. 10 : DigitChars[d] = c) - 1

RECURSIVE ParseDigits(_, _)
ParseDigits(str, acc) ==
    IF str = <<>> THEN acc
    ELSE ParseDigits(Tail(str), 10 * acc + DigitValue(Head(str)))

\* str::parse::<i32> on unsigned decimal text
parse_i32(str) ==
    IF str # <<>> /\ \A i \in DOMAIN str : IsDigit(str[i])
    THEN Some(ParseDigits(str, 0))
    ELSE None

\* what a PID file left behind can hold: text that is no number, the pid of
\* no process, the pid of a process this user may not signal
ForeignPids == {50}
StaleContents == {<<"x">>, to_string(40), to_string(50)}

Live(p) == spc[p] \notin {"init", "failed", "dead", "exited"}

\* kill(pid, SIGTERM): 0, or the errno
KillErrno(t) ==
    IF t \in Servers /\ Live(t) THEN "ok"
    ELSE IF t \in ForeignPids THEN "EPERM"
    ELSE "ESRCH"

\* a variant that gives up on every errno
AfterKillStrict(res) == IF res = "ok" THEN "rm_sock" ELSE "failed"

\* where try_new goes after kill: on, or return Err
AfterKill(res) == IF res \in {"ok", "ESRCH"} THEN "rm_sock" ELSE "failed"

\* std::process::id().to_string()
PidFileContents(p) == to_string(p)

\* std::fs::read_to_string(&pid_path) and pid.parse::<i32>()
ReadPidFile(p) ==
    /\ spc[p] = "init"
    /\ readpid' = [readpid EXCEPT ![p] = pidfile]
    /\ spc' = [spc EXCEPT ![p] = IF pidfile.some /\ parse_i32(pidfile.val).some
                                 THEN "kill" ELSE "rm_sock"]
    /\ UNCHANGED <<thread, pidfile, socknode, attached, killres, touched, signalled,
                   frVars, decVars, fsVars, wfVars, encVars>>

\* kill(pid, SIGTERM) and the match on errno
Kill(p) ==
    /\ spc[p] = "kill"
    /\ LET t == parse_i32(readpid[p].val).val
           res == KillErrno(t)
       IN  /\ killres' = [killres EXCEPT ![p] = res]
           /\ IF res = "ok"
              THEN /\ spc' = [spc EXCEPT ![p] = AfterKill(res), ![t] = "dead"]
                   /\ thread' = [thread EXCEPT ![t] = "none"]
                   /\ attached' = attached \ {t}
                   /\ signalled' = signalled \cup {t}
              ELSE /\ spc' = [spc EXCEPT ![p] = AfterKill(res)]
                   /\ UNCHANGED <<thread, attached, signalled>>
    /\ UNCHANGED <<pidfile, socknode, readpid, touched, frVars, decVars, fsVars, wfVars, encVars>>

\* a variant that leaves a socket node it finds in place
RemoveStaleSockKeeps(p) ==
    /\ spc[p] = "rm_sock"
    /\ spc' = [spc EXCEPT ![p] = "rm_pid"]
    /\ UNCHANGED <<thread, pidfile, socknode, attached, readpid, killres, touched, signalled,
                   frVars, decVars, fsVars, wfVars, encVars>>

\* the loop over [sock_path, pid_path], first turn:
\* if metadata(path).is_ok() { remove_file(path)? }
RemoveStaleSock(p) ==
    /\ spc[p] = "rm_sock"
    /\ \/ /\ ~socknode.some
          /\ spc' = [spc EXCEPT ![p] = "rm_pid"]
          /\ UNCHANGED <<socknode, touched>>
       \/ /\ socknode.some
          /\ socknode' = None
          /\ touched' = touched \cup {p}
          /\ spc' = [spc EXCEPT ![p] = "rm_pid"]
       \/ /\ socknode.some
          /\ spc' = [spc EXCEPT ![p] = "failed"]
          /\ UNCHANGED <<socknode, touched>>
    /\ UNCHANGED <<thread, pidfile, attached, readpid, killres, signalled,
                   frVars, decVars, fsVars, wfVars, encVars>>

\* the loop's second turn
RemoveStalePid(p) ==
    /\ spc[p] = "rm_pid"
    /\ \/ /\ ~pidfile.some
          /\ spc' = [spc EXCEPT ![p] = "write"]
          /\ UNCHANGED <<pidfile, touched>>
       \/ /\ pidfile.some
          /\ pidfile' = None
          /\ touched' = touched \cup {p}
          /\ spc' = [spc EXCEPT ![p] = "write"]
       \/ /\ pidfile.some
          /\ spc' = [spc EXCEPT ![p] = "failed"]
          /\ UNCHANGED <<pidfile, touched>>
    /\ UNCHANGED <<thread, socknode, attached, readpid, killres, signalled,
                   frVars, decVars, fsVars, wfVars, encVars>>

\* std::fs::write(&pid_path, std::process::id().to_string())?
WritePidFile(p) ==
    /\ spc[p] = "write"
    /\ \/ /\ pidfile' = Some(PidFileContents(p))
          /\ touched' = touched \cup {p}
          /\ spc' = [spc EXCEPT ![p] = "watcher"]
       \/ /\ spc' = [spc EXCEPT ![p] = "failed"]
          /\ UNCHANGED <<pidfile, touched>>
    /\ UNCHANGED <<thread, socknode, attached, readpid, killres, signalled,
                   frVars, decVars, fsVars, wfVars, encVars>>

\* watcher: FsEvents::try_new()?, then spawn_accept_task and Ok(Self {..})
NewWatcher(p) ==
    /\ spc[p] = "watcher"
    /\ \/ /\ attached' = attached \cup {p}
          /\ thread' = [thread EXCEPT ![p] = "spawned"]
          /\ spc' = [spc EXCEPT ![p] = "running"]
       \/ /\ spc' = [spc EXCEPT ![p] = "failed"]
          /\ UNCHANGED <<attached, thread>>
    /\ UNCHANGED <<pidfile, socknode, readpid, killres, touched, signalled,
                   frVars, decVars, fsVars, wfVars, encVars>>

\* the accepter thread: UnixListener::bind(sock_path).unwrap()
Bind(p) ==
    /\ thread[p] = "spawned"
    /\ IF socknode.some
       THEN /\ thread' = [thread EXCEPT ![p] = "panicked"]
            /\ UNCHANGED socknode
       ELSE /\ thread' = [thread EXCEPT ![p] = "bound"]
            /\ socknode' = Some(p)
    /\ UNCHANGED <<spc, pidfile, attached, readpid, killres, touched, signalled,
                   frVars, decVars, fsVars, wfVars, encVars>>

\* try_send_fs_events_blocking returns Err and main returns it
MainLoopErr(p) ==
    /\ spc[p] = "running"
    /\ spc' = [spc EXCEPT ![p] = "drop_sock"]
    /\ UNCHANGED <<thread, pidfile, socknode, attached, readpid, killres, touched, signalled,
                   frVars, decVars, fsVars, wfVars, encVars>>

\* Drop: remove_file(&self.sock_path), an error is only logged
DropSock(p) ==
    /\ spc[p] = "drop_sock"
    /\ socknode' = None
    /\ touched' = touched \cup {p}
    /\ spc' = [spc EXCEPT ![p] = "drop_pid"]
    /\ UNCHANGED <<thread, pidfile, attached, readpid, killres, signalled,
                   frVars, decVars, fsVars, wfVars, encVars>>

\* Drop: remove_file(&self.pid_path); then the fields go and the process ends
DropPid(p) ==
    /\ spc[p] = "drop_pid"
    /\ pidfile' = None
    /\ spc' = [spc EXCEPT ![p] = "exited"]
    /\ thread' = [thread EXCEPT ![p] = "none"]
    /\ attached' = attached \ {p}
    /\ UNCHANGED <<socknode, readpid, killres, touched, signalled,
                   frVars, decVars, fsVars, wfVars, encVars>>

\* SIGTERM from outside (an operator, a service manager)
Terminate(p) ==
    /\ Live(p)
    /\ spc' = [spc EXCEPT ![p] = "dead"]
    /\ thread' = [thread EXCEPT ![p] = "none"]
    /\ attached' = attached \ {p}
    /\ signalled' = signalled \cup {p}
    /\ UNCHANGED <<pidfile, socknode, readpid, killres, touched,
                   frVars, decVars, fsVars, wfVars, encVars>>

InitStart ==
    /\ FrIdle
    /\ DecIdle
    /\ FsIdle
    /\ WfIdle
    /\ EncIdle
    /\ spc = [p \in Servers |-> "init"]
    /\ thread = [p \in Servers |-> "none"]
    /\ pidfile \in {None} \cup {Some(c) : c \in StaleContents}
    /\ socknode \in {None, Some(0)}
    /\ attached = {}
    /\ readpid = [p \in Servers |-> None]
    /\ killres = [p \in Servers |-> "none"]
    /\ touched = {}
    /\ signalled = {}

NextStart ==
    \/ \E p \in Servers : ReadPidFile(p)
    \/ \E p \in Servers : Kill(p)
    \/ \E p \in Servers : RemoveStaleSock(p)
    \/ \E p \in Servers : RemoveStalePid(p)
    \/ \E p \in Servers : WritePidFile(p)
    \/ \E p \in Servers : NewWatcher(p)
    \/ \E p \in Servers : Bind(p)
    \/ \E p \in Servers : MainLoopErr(p)
    \/ \E p \in Servers : DropSock(p)
    \/ \E p \in Servers : DropPid(p)
    \/ \E p \in Servers : Terminate(p)

SpecStart == InitStart /\ [][NextStart]_vars

\* p found the PID file naming q and its kill reached q alive
Replaced(p, q) ==
    /\ readpid[p].some
    /\ parse_i32(readpid[p].val) = Some(q)
    /\ killres[p] = "ok"

\* C16: a server p started on a sockpath whose PID file names a live earlier
\* server q: q was sent the termination signal and has stopped; p's accepter
\* never fails to bind; and once p runs with its socket bound it is the only
\* running server, the socket node is the one p bound and the PID file holds
\* p's pid.
C16_RestartReplaces ==
    \A p, q \in Servers :
        Replaced(p, q) =>
            /\ q \in signalled
            /\ ~Live(q)
            /\ thread[p] # "panicked"
            /\ (spc[p] = "running" /\ thread[p] = "bound") =>
                  /\ \A r \in Servers \ {p} : spc[r] # "running"
                  /\ socknode = Some(p)
                  /\ pidfile = Some(to_string(p))

\* 12 found 11's pid in the PID file, its signal ended 11, and 12 is running
\* with its socket bound
C16_Witness ==
    /\ Replaced(12, 11)
    /\ spc[11] = "dead"
    /\ spc[12] = "running"
    /\ thread[12] = "bound"
    /\ socknode = Some(12)

Others(p) == Servers \ {p}

\* C17: the socket node and the PID file both exist from the moment
\* construction returns successfully, and both are absent once the server
\* has stopped, by the main loop's error return and drop or by a termination
\* signal (no other server being alive on the sockpath).
C17_FilesIffRunning ==
    [][ \A p \in Servers :
          /\ spc'[p] = "running" => (pidfile'.some /\ socknode'.some)
          /\ (/\ spc[p] \in {"running", "drop_pid"}
              /\ spc'[p] \in {"dead", "exited"}
              /\ \A r \in Others(p) : ~Live(r)') =>
                (~pidfile'.some /\ ~socknode'.some)
      ]_vars

\* C18: construction is atomic: when Server::try_new has returned an error,
\* at whatever stage, no PID file written by this attempt, no socket it
\* bound, no accepter thread and no attached probe is left.
C18_FailedStartLeavesNothing ==
    \A p \in Servers :
        spc[p] = "failed" =>
            /\ pidfile # Some(PidFileContents(p))
            /\ socknode # Some(p)
            /\ thread[p] = "none"
            /\ p \notin attached

\* C26: a failure to bind the server socket is a failure of construction:
\* whenever the socket cannot be bound Server::try_new returns an error and
\* no main loop runs, so there is no state in which try_new has returned Ok
\* and the socket is not, and will not be, bound.
C26_BindFailureFailsConstruction ==
    \A p \in Servers :
        thread[p] = "panicked" => spc[p] = "failed"

\* every server's startup has run to its end: construction has returned or
\* the process is gone, and no accepter thread is still about to bind
StartsSettled ==
    \A p \in Servers :
        /\ spc[p] \in {"running", "failed", "dead", "exited"}
        /\ thread[p] # "spawned"

\* C31: two servers started concurrently on one sockpath: in every
\* interleaving of their startup steps (read pid, signal, remove files, write
\* pid, bind socket) at most one server survives as running, and whenever
\* the PID file exists its content is the pid of the process that has the
\* socket bound.
C31_ConcurrentStartOneSurvivor ==
    StartsSettled =>
        /\ Cardinality({p \in Servers : spc[p] = "running"}) <= 1
        /\ (pidfile.some /\ \E r \in Servers : spc[r] = "running") =>
              \E p \in Servers :
                  /\ thread[p] = "bound"
                  /\ socknode = Some(p)
                  /\ pidfile = Some(PidFileContents(p))

\* C19: with an existing PID file: a parseable integer is sent the signal; a
\* no-such-process answer lets startup proceed; any other signalling error
\* makes startup return an error before it has removed or written any file;
\* unparseable contents are skipped, no signal is sent, and startup proceeds.
C19_PidFileHandling ==
    [][ \A p \in Servers :
          /\ (spc[p] = "init" /\ spc'[p] # "init" /\ pidfile.some) =>
                IF parse_i32(pidfile.val).some
                THEN spc'[p] = "kill"
                ELSE spc'[p] = "rm_sock" /\ signalled' = signalled /\ killres'[p] = "none"
          /\ (spc[p] = "kill" /\ spc'[p] \notin {"kill", "dead"}) =>
                /\ killres'[p] = KillErrno(parse_i32(readpid[p].val).val)
                /\ killres'[p] = "ok" =>
                      /\ parse_i32(readpid[p].val).val \in signalled'
                      /\ spc'[p] = "rm_sock"
                /\ killres'[p] = "ESRCH" =>
                      /\ signalled' = signalled
                      /\ spc'[p] = "rm_sock"
                /\ killres'[p] \notin {"ok", "ESRCH"} =>
                      /\ spc'[p] = "failed"
                      /\ p \notin touched'
                      /\ pidfile' = pidfile
                      /\ socknode' = socknode
      ]_vars

\* a server that found the pid of no process in the PID file has gone on:
\* it has replaced the file and is running
C19_Witness ==
    \E p \in Servers :
        /\ killres[p] = "ESRCH"
        /\ spc[p] = "running"
        /\ pidfile = Some(to_string(p))
        /\ p \in touched
-----------------------------------------------------------------------------
(* bpf-fs-events-cli main.rs: the default encoder event_to_string, and the *)
(* byte stream the server makes of it: event_to_bytes adds nothing, and    *)
(* the write loop writes one event's bytes after another's.  Two streams   *)
(* are written side by side so that their bytes can be compared.           *)

MaxStream == 2

EffectName(effect_type) ==
    CASE effect_type = "Create" -> <<"c", "r", "e", "a", "t", "e">>
      [] effect_type = "Rename" -> <<"r", "e", "n", "a", "m", "e">>
      [] effect_type = "Link" -> <<"l", "i", "n", "k">>
      [] effect_type = "Delete" -> <<"d", "e", "l", "e", "t", "e">>
      [] effect_type = "Continuation" -> <<"u", "n", "e", "x", "p", "e", "c", "t", "e", "d", ":", "c", "o", "n", "t">>
      [] OTHER -> <<"u", "n", "e", "x", "p", "e", "c", "t", "e", "d", ":", "a", "s", "s", "o", "c">>

PathTypeName(path_type) ==
    CASE path_type = "Dir" -> <<"d", "i", "r">>
      [] path_type = "File" -> <<"f", "i", "l", "e">>
      [] path_type = "Symlink" -> <<"s", "y", "m", "l", "i", "n", "k">>
      [] path_type = "Hardlink" -> <<"h", "a", "r", "d", "l", "i", "n", "k">>
      [] path_type = "Blockdev" -> <<"b", "l", "o", "c", "k", "d", "e", "v">>
      [] path_type = "Socket" -> <<"s", "o", "c", "k", "e", "t">>
      [] path_type = "Continuation" -> <<"u", "n", "e", "x", "p", "e", "c", "t", "e", "d", ":", "c", "o", "n", "t">>
      [] OTHER -> <<"u", "n", "e", "x", "p", "e", "c", "t", "e", "d", ":", "u", "n", "k", "n", "o", "w", "n">>

\* "@ {ts} {et} {pt} pid:{pid}"
Header(e) ==
    <<"@", " ">> \o to_string(e.timestamp) \o <<" ">> \o EffectName(e.effect_type)
    \o <<" ">> \o PathTypeName(e.path_type) \o <<" ", "p", "i", "d", ":">> \o to_string(e.pid)

event_to_string(e) ==
    IF e.associated.some
    THEN Header(e) \o <<"\n", ">", " ">> \o e.path_name \o <<"\n", ">", " ">> \o e.associated.val
    ELSE Header(e) \o <<"\n", ">", " ">> \o e.path_name

event_to_bytes(e) == event_to_string(e)

\* printable path names: a file name may hold spaces, '@' and ':'
PathNames ==
    { <<"/", "a">>,
      <<"/", "b">>,
      <<"/", "a", "@", " ", "2", " ", "c", "r", "e", "a", "t", "e", " ", "f", "i", "l", "e", " ", "p", "i", "d", ":", "1", "2">> }

\* the events of a stream: number n has timestamp n and pid 10 + n
EncoderEvents(n) ==
    { [path_name |-> pn, associated |-> a, timestamp |-> n, pid |-> 10 + n,
       path_type |-> "File", effect_type |-> "Create"] :
        pn \in PathNames, a \in {None, Some(<<"/", "b">>)} }

\* the server writes the next event's bytes to the first stream
WriteA ==
    /\ Len(evs_a) < MaxStream
    /\ \E e \in EncoderEvents(Len(evs_a) + 1) :
        /\ evs_a' = Append(evs_a, e)
        /\ wire_a' = wire_a \o event_to_bytes(e)
    /\ UNCHANGED <<evs_b, wire_b, frVars, decVars, fsVars, wfVars, stVars>>

\* and to the second
WriteB ==
    /\ Len(evs_b) < MaxStream
    /\ \E e \in EncoderEvents(Len(evs_b) + 1) :
        /\ evs_b' = Append(evs_b, e)
        /\ wire_b' = wire_b \o event_to_bytes(e)
    /\ UNCHANGED <<evs_a, wire_a, frVars, decVars, fsVars, wfVars, stVars>>

InitEncoder ==
    /\ FrIdle
    /\ DecIdle
    /\ FsIdle
    /\ WfIdle
    /\ StIdle
    /\ EncIdle

NextEncoder ==
    \/ WriteA
    \/ WriteB

SpecEncoder == InitEncoder /\ [][NextEncoder]_vars

\* the lines of a text
RECURSIVE SplitLines(_, _)
SplitLines(text, line) ==
    IF text = <<>> THEN <<line>>
    ELSE IF Head(text) = "\n" THEN <<line>> \o SplitLines(Tail(text), <<>>)
    ELSE SplitLines(Tail(text), Append(line, Head(text)))

\* the text of one event reads back as that event: the header line, the
\* path line, and a third line exactly when associated is present
ReadsBack(text, e) ==
    LET lines == SplitLines(text, <<>>)
    IN  /\ Len(lines) = IF e.associated.some THEN 3 ELSE 2
        /\ lines[1] = Header(e)
        /\ lines[2] = <<">", " ">> \o e.path_name
        /\ e.associated.some => lines[3] = <<">", " ">> \o e.associated.val

\* C20: the default encoder's text of an event reads back as that event,
\* with a third line exactly when associated is present, no two events
\* sharing a text; and a stream of encodings concatenated as the server
\* writes them splits back into the same sequence of events: no two
\* sequences of events give the same bytes.
C20_EncoderRoundTrip ==
    /\ Len(evs_a) = 1 => ReadsBack(wire_a, evs_a[1])
    /\ (Len(evs_a) = 1 /\ Len(evs_b) = 1 /\ wire_a = wire_b) => evs_a = evs_b
    /\ wire_a = wire_b => evs_a = evs_b
====
